---- MODULE Spec2Model ----
(***************************************************************************)
(* Model of lale/lib/rasl/metrics.py: the scorer registry (get_scorer and  *)
(* _scorer_cache), the metric monoids _AccuracyData and _R2Data, and the   *)
(* batched scoring fold of MetricMonoidFactory.                            *)
(***************************************************************************)
EXTENDS Integers, Sequences, FiniteSets, TLC

VARIABLES
    \* ---- scorer registry (metrics.py 201-213) ----
    cache,      \* _scorer_cache: name -> factory instance or None
    tpc,        \* per caller: the line of get_scorer it is about to execute
    tscoring,   \* per caller: the argument `scoring` of the running call
    tnew,       \* per caller: the factory just constructed, not yet stored
    tresult,    \* per caller: the local `result`
    returned,   \* history: what every finished call of get_scorer gave its caller
    nextId,     \* identity of the next object the process allocates
    ncalls,     \* number of get_scorer calls started so far
    \* ---- one factory scoring a dataset (metrics.py 65-81) ----
    metric,     \* which factory `self` is: "accuracy" (_Accuracy) or "r2" (_R2)
    data,       \* the rows <<x, y_true>> of the dataset the caller holds
    spc,        \* position of the running scoring call
    sop,        \* the operation called
    nb,         \* number of batches in the sequence handed to the call
    iter,       \* the part of `batches` the generators have not pulled yet
    cur,        \* the batch travelling through the generators
    lifted,     \* the element handed to reduce's function (b of the lambda)
    acc,        \* reduce's running value (a of the lambda)
    log,        \* history: the calls made on collaborators during this call
    outcome,    \* what the call gave its caller: a float or a raised error
    shape,      \* history: how the running call's input relates to `data`
    reference,  \* history: the first finished call on well-formed batches
    scalls,     \* number of scoring calls started so far
    \* ---- three monoid values combined in both groupings (94-95, 140-146) ----
    mvals,      \* <<a, b, c>>
    mab,        \* a.combine(b), once computed
    mbc,        \* b.combine(c), once computed
    mleft,      \* a.combine(b).combine(c), once computed
    mright      \* a.combine(b.combine(c)), once computed

regvars == <<cache, tpc, tscoring, tnew, tresult, returned, nextId, ncalls>>

scorevars == <<metric, data, spc, sop, nb, iter, cur, lifted, acc, log,
               outcome, shape, reference, scalls>>

monoidvars == <<mvals, mab, mbc, mleft, mright>>

vars == <<cache, tpc, tscoring, tnew, tresult, returned, nextId, ncalls,
          metric, data, spc, sop, nb, iter, cur, lifted, acc, log,
          outcome, shape, reference, scalls, mvals, mab, mbc, mleft, mright>>

\* Python's None; every object of the model is a record [cls, id]
None == [cls |-> "NoneType", id |-> 0]

\* ---------------------------------------------------------------- bounds
NumCallers == 2
MaxCalls == 3

Callers == 1..NumCallers

\* --------------------------------------------------------------- registry
RegisteredNames == {"accuracy", "r2"}
RequestedNames == RegisteredNames \cup {"f1"}

\* the error of line 205 (an AssertionError carrying the unknown name)
UnknownMetricError == [cls |-> "AssertionError:scoring", id |-> 0]

\* the error of line 212
ResultIsNoneError == [cls |-> "AssertionError:result", id |-> 0]

\* _Accuracy() / _R2(): a fresh object; two constructions never give the same one
NewFactory(scoring, id) ==
    [cls |-> IF scoring = "accuracy" THEN "_Accuracy" ELSE "_R2", id |-> id]

InitRegistry ==
    /\ cache = [n \in RegisteredNames |-> None]
    /\ tpc = [t \in Callers |-> "idle"]
    /\ tscoring = [t \in Callers |-> ""]
    /\ tnew = [t \in Callers |-> None]
    /\ tresult = [t \in Callers |-> None]
    /\ returned = {}
    /\ nextId = 1
    /\ ncalls = 0
    \* the rest of the state is not exercised with the registry
    /\ metric = "accuracy" /\ data = <<>> /\ spc = "idle" /\ sop = ""
    /\ nb = 0 /\ iter = <<>> /\ cur = <<>> /\ lifted = <<>> /\ acc = <<>>
    /\ log = <<>> /\ outcome = <<>> /\ shape = "" /\ reference = <<>>
    /\ scalls = 0
    /\ mvals = <<>> /\ mab = <<>> /\ mbc = <<>> /\ mleft = <<>> /\ mright = <<>>

\* a caller enters get_scorer(scoring)
CallGetScorer(t, scoring) ==
    /\ tpc[t] = "idle"
    /\ ncalls < MaxCalls
    /\ ncalls' = ncalls + 1
    /\ tpc' = [tpc EXCEPT ![t] = "assert_known"]
    /\ tscoring' = [tscoring EXCEPT ![t] = scoring]
    /\ tresult' = [tresult EXCEPT ![t] = None]
    /\ tnew' = [tnew EXCEPT ![t] = None]
    /\ UNCHANGED <<cache, returned, nextId>>
    /\ UNCHANGED <<scorevars, monoidvars>>

\* variant of line 205: the cache given an entry for any name (setdefault)
AssertKnownSetdefault(t) ==
    /\ tpc[t] = "assert_known"
    /\ cache' = IF tscoring[t] \in DOMAIN cache THEN cache
                ELSE [n \in DOMAIN cache \cup {tscoring[t]} |->
                         IF n \in DOMAIN cache THEN cache[n] ELSE None]
    /\ tpc' = [tpc EXCEPT ![t] = "test_none"]
    /\ UNCHANGED <<tscoring, tnew, tresult, returned, nextId, ncalls>>
    /\ UNCHANGED <<scorevars, monoidvars>>

\* line 205: assert scoring in _scorer_cache, scoring
AssertKnown(t) ==
    /\ tpc[t] = "assert_known"
    /\ IF tscoring[t] \in DOMAIN cache
         THEN /\ tpc' = [tpc EXCEPT ![t] = "test_none"]
              /\ UNCHANGED returned
         ELSE /\ tpc' = [tpc EXCEPT ![t] = "idle"]
              /\ returned' = returned \cup
                    {[caller |-> t, scoring |-> tscoring[t],
                      outcome |-> "raised", value |-> UnknownMetricError]}
    /\ UNCHANGED <<cache, tscoring, tnew, tresult, nextId, ncalls>>
    /\ UNCHANGED <<scorevars, monoidvars>>

\* line 206: if _scorer_cache[scoring] is None
TestNone(t) ==
    /\ tpc[t] = "test_none"
    /\ tpc' = [tpc EXCEPT ![t] =
                 IF cache[tscoring[t]] = None THEN "construct" ELSE "read"]
    /\ UNCHANGED <<cache, tscoring, tnew, tresult, returned, nextId, ncalls>>
    /\ UNCHANGED <<scorevars, monoidvars>>

\* lines 207-210, right-hand side: _Accuracy() or _R2()
Construct(t) ==
    /\ tpc[t] = "construct"
    /\ tnew' = [tnew EXCEPT ![t] = NewFactory(tscoring[t], nextId)]
    /\ nextId' = nextId + 1
    /\ tpc' = [tpc EXCEPT ![t] = "store"]
    /\ UNCHANGED <<cache, tscoring, tresult, returned, ncalls>>
    /\ UNCHANGED <<scorevars, monoidvars>>

\* variant of lines 208/210: the cache rebuilt around the new factory
StoreRebuildsCache(t) ==
    /\ tpc[t] = "store"
    /\ cache' = [n \in DOMAIN cache |->
                    IF n = tscoring[t] THEN tnew[t] ELSE None]
    /\ tpc' = [tpc EXCEPT ![t] = "read"]
    /\ UNCHANGED <<tscoring, tnew, tresult, returned, nextId, ncalls>>
    /\ UNCHANGED <<scorevars, monoidvars>>

\* lines 208/210, the assignment: _scorer_cache[scoring] = <the new factory>
Store(t) ==
    /\ tpc[t] = "store"
    /\ cache' = [cache EXCEPT ![tscoring[t]] = tnew[t]]
    /\ tpc' = [tpc EXCEPT ![t] = "read"]
    /\ UNCHANGED <<tscoring, tnew, tresult, returned, nextId, ncalls>>
    /\ UNCHANGED <<scorevars, monoidvars>>

\* line 211: result = _scorer_cache[scoring]
ReadResult(t) ==
    /\ tpc[t] = "read"
    /\ tresult' = [tresult EXCEPT ![t] = cache[tscoring[t]]]
    /\ tpc' = [tpc EXCEPT ![t] = "return"]
    /\ UNCHANGED <<cache, tscoring, tnew, returned, nextId, ncalls>>
    /\ UNCHANGED <<scorevars, monoidvars>>

\* lines 212-213: assert result is not None; return result
ReturnResult(t) ==
    /\ tpc[t] = "return"
    /\ returned' = returned \cup
          {IF tresult[t] # None
             THEN [caller |-> t, scoring |-> tscoring[t],
                   outcome |-> "returned", value |-> tresult[t]]
             ELSE [caller |-> t, scoring |-> tscoring[t],
                   outcome |-> "raised", value |-> ResultIsNoneError]}
    /\ tpc' = [tpc EXCEPT ![t] = "idle"]
    /\ UNCHANGED <<cache, tscoring, tnew, tresult, nextId, ncalls>>
    /\ UNCHANGED <<scorevars, monoidvars>>

NextRegistry ==
    \E t \in Callers :
        \/ \E scoring \in RequestedNames : CallGetScorer(t, scoring)
        \/ AssertKnown(t)
        \/ TestNone(t)
        \/ Construct(t)
        \/ Store(t)
        \/ ReadResult(t)
        \/ ReturnResult(t)

SpecRegistry == InitRegistry /\ [][NextRegistry]_vars

\* ------------------------------------------------- float64 arithmetic
\* A float64 is [k, num, den]: k = "fin" with the exact value num/den in
\* lowest terms (den > 0), or "nan", "inf", "-inf".  Values are kept exact:
\* the sums of the model are small integers.
RECURSIVE GCD(_, _)
GCD(a, b) == IF b = 0 THEN a ELSE GCD(b, a % b)

Abs(a) == IF a < 0 THEN -a ELSE a

Fin(n, d) ==
    LET g == GCD(Abs(n), Abs(d))
        sgn == IF d < 0 THEN -1 ELSE 1
    IN  [k |-> "fin", num |-> sgn * (n \div g), den |-> sgn * (d \div g)]

NaN == [k |-> "nan", num |-> 0, den |-> 0]
PosInf == [k |-> "inf", num |-> 0, den |-> 0]
NegInf == [k |-> "-inf", num |-> 0, den |-> 0]

Float64(i) == Fin(i, 1)

IsInf(a) == a.k \in {"inf", "-inf"}

Negate(a) ==
    CASE a.k = "inf" -> NegInf
      [] a.k = "-inf" -> PosInf
      [] a.k = "nan" -> NaN
      [] OTHER -> Fin(-a.num, a.den)

\* numpy's float64 division: a zero divisor gives nan or an infinity (with a
\* RuntimeWarning), it never raises
FDiv(a, b) ==
    CASE a.k = "nan" \/ b.k = "nan" -> NaN
      [] IsInf(a) /\ IsInf(b) -> NaN
      [] IsInf(a) -> IF b.num < 0 THEN Negate(a) ELSE a
      [] IsInf(b) -> Float64(0)
      [] b.num = 0 -> IF a.num = 0 THEN NaN
                      ELSE IF a.num > 0 THEN PosInf ELSE NegInf
      [] OTHER -> Fin(a.num * b.den, a.den * b.num)

FSub(a, b) ==
    CASE a.k = "nan" \/ b.k = "nan" -> NaN
      [] IsInf(a) /\ IsInf(b) -> IF a.k = b.k THEN NaN ELSE a
      [] IsInf(a) -> a
      [] IsInf(b) -> Negate(b)
      [] OTHER -> Fin(a.num * b.den - b.num * a.den, a.den * b.den)

\* an exception leaving a scoring call, in the shape of an outcome
Raised(name) == [k |-> name, num |-> 0, den |-> 0]

Pending == Raised("pending")

IsFloat(o) == o.k \in {"fin", "nan", "inf", "-inf"}

\* variant of line 67: reduce given an initial value, scoring nothing as 0.0
EmptyFoldDefault == Float64(0)

\* functools.reduce on an empty iterable without initial value: TypeError
EmptyBatchSequenceError == Raised("TypeError:reduce() of empty iterable")

\* a failed assert of to_monoid (lines 108, 109, 112): AssertionError
InvalidBatchError == Raised("AssertionError:to_monoid")

\* ------------------------------------------------------------ monoids
NoMonoid == [cls |-> "NoneType"]

\* _AccuracyData.__init__
AccuracyData(match, total) ==
    [cls |-> "_AccuracyData", match |-> match, total |-> total]

\* _R2Data.__init__
R2Data(n, sum, sum_sq, res_sum_sq) ==
    [cls |-> "_R2Data", n |-> n, sum |-> sum, sum_sq |-> sum_sq,
     res_sum_sq |-> res_sum_sq]

\* variant of line 95: the total of the left operand is lost
AccuracyCombineDropsTotal(self, other) ==
    AccuracyData(self.match + other.match, other.total)

\* _AccuracyData.combine
AccuracyCombine(self, other) ==
    AccuracyData(self.match + other.match, self.total + other.total)

\* variant of line 145: a minus for the plus
R2CombineMinus(self, other) ==
    R2Data(self.n + other.n, self.sum + other.sum,
           self.sum_sq + other.sum_sq, self.res_sum_sq - other.res_sum_sq)

\* _R2Data.combine
R2Combine(self, other) ==
    R2Data(self.n + other.n, self.sum + other.sum,
           self.sum_sq + other.sum_sq, self.res_sum_sq + other.res_sum_sq)

\* a.combine(b), dispatched on the class of a
Combine(a, b) ==
    IF a.cls = "_AccuracyData" THEN AccuracyCombine(a, b) ELSE R2Combine(a, b)

\* _Accuracy.from_monoid
AccuracyFromMonoid(v) == FDiv(Float64(v.match), Float64(v.total))

\* _R2.from_monoid
R2FromMonoid(v) ==
    LET ss_tot == FSub(Float64(v.sum_sq),
                       FDiv(Float64(v.sum * v.sum), Float64(v.n)))
    IN  FSub(Float64(1), FDiv(Float64(v.res_sum_sq), ss_tot))

\* self.from_monoid(v)
FromMonoid(m, v) ==
    IF m = "accuracy" THEN AccuracyFromMonoid(v) ELSE R2FromMonoid(v)

\* ------------------------------------------------------------ batches
\* a column of a batch: what isinstance sees, and the values
Column(type, values) == [type |-> type, values |-> values]

NoneColumn == Column("NoneType", <<>>)

RECURSIVE SumOver(_, _, _)
\* sum of f[i] for i in lo..hi
SumOver(f, lo, hi) == IF lo > hi THEN 0 ELSE f[lo] + SumOver(f, lo + 1, hi)

\* lines 107-112 and 174-179: the asserts and the ndarray conversion;
\* the result is the y_pred column the pipeline sees, or NoneColumn when
\* an assert fails
CheckedPred(batch) ==
    IF batch.y_true.type = "NoneType" \/ batch.y_pred.type = "NoneType"
      THEN NoneColumn
    ELSE IF batch.y_true.type # "Series" THEN NoneColumn
    ELSE LET y_pred == IF batch.y_pred.type = "ndarray"
                         THEN Column("Series", batch.y_pred.values)
                         ELSE batch.y_pred
         IN  IF y_pred.type # "Series" THEN NoneColumn ELSE y_pred

\* _Accuracy._pipeline_suffix applied to the two columns (lines 100-104)
AccuracyAggregate(y_true, y_pred) ==
    LET n == Len(y_true)
        match == [i \in 1..n |-> IF y_true[i] = y_pred[i] THEN 1 ELSE 0]
    IN  AccuracyData(SumOver(match, 1, n), n)

\* _R2._pipeline_suffix applied to the two columns (lines 153-171)
R2Aggregate(y_true, y_pred) ==
    LET n == Len(y_true)
        y2 == [i \in 1..n |-> y_true[i] * y_true[i]]
        e2 == [i \in 1..n |-> (y_true[i] - y_pred[i]) * (y_true[i] - y_pred[i])]
    IN  R2Data(n, SumOver(y_true, 1, n), SumOver(y2, 1, n), SumOver(e2, 1, n))

\* _Accuracy.to_monoid; NoMonoid stands for the AssertionError
AccuracyToMonoid(batch) ==
    LET y_pred == CheckedPred(batch)
    IN  IF y_pred = NoneColumn THEN NoMonoid
        ELSE AccuracyAggregate(batch.y_true.values, y_pred.values)

\* _R2.to_monoid; NoMonoid stands for the AssertionError
R2ToMonoid(batch) ==
    LET y_pred == CheckedPred(batch)
    IN  IF y_pred = NoneColumn THEN NoMonoid
        ELSE R2Aggregate(batch.y_true.values, y_pred.values)

\* self.to_monoid(batch)
ToMonoid(m, batch) ==
    IF m = "accuracy" THEN AccuracyToMonoid(batch) ELSE R2ToMonoid(batch)

\* ------------------------------------------------------ scoring inputs
MaxRows == 3
MaxScoreCalls == 2

Labels == {0, 1}
Rows == Labels \X Labels          \* a row is <<x, y_true>>

\* estimator.predict on one feature value (the trained model is a collaborator)
EstimatorPredict(x) == 1 - x

RowCode(r) == 2 * r[1] + r[2]

\* the datasets, rows in a canonical order; calls see them in any order
Datasets ==
    UNION {{d \in [1..n -> Rows] :
               \A i \in 1..(n - 1) : RowCode(d[i]) <= RowCode(d[i + 1])}
           : n \in 1..MaxRows}

Arrangements(d) ==
    {[i \in 1..Len(d) |-> d[p[i]]] : p \in Permutations(1..Len(d))}

SetMin(S) == CHOOSE m \in S : \A o \in S : m <= o

RECURSIVE Split(_, _)
\* cut the sequence s after each position in cuts
Split(s, cuts) ==
    IF s = <<>> THEN <<>>
    ELSE LET inner == cuts \cap (1..(Len(s) - 1))
             c == IF inner = {} THEN Len(s) ELSE SetMin(inner)
         IN  <<SubSeq(s, 1, c)>>
                \o Split(SubSeq(s, c + 1, Len(s)), {o - c : o \in inner \ {c}})

Xs(rows) == [i \in 1..Len(rows) |-> rows[i][1]]
Ys(rows) == [i \in 1..Len(rows) |-> rows[i][2]]
Predicted(xs) == [i \in 1..Len(xs) |-> EstimatorPredict(xs[i])]

\* a _Batch_yyX as a caller builds it: y_pred a Series and no X, or
\* the triple (y, estimator.predict(X), X)
DataBatch(rows, form) ==
    IF form = "series"
      THEN [y_true |-> Column("Series", Ys(rows)),
            y_pred |-> Column("Series", Predicted(Xs(rows))),
            X |-> NoneColumn]
      ELSE [y_true |-> Column("Series", Ys(rows)),
            y_pred |-> Column("ndarray", Predicted(Xs(rows))),
            X |-> Column("DataFrame", Xs(rows))]

\* a _Batch_Xy, in the record shape of the triple it becomes at line 73
XyBatch(rows) ==
    [y_true |-> Column("Series", Ys(rows)),
     y_pred |-> NoneColumn,
     X |-> Column("DataFrame", Xs(rows))]

MakeBatch(op, rows, form) ==
    IF op = "score_estimator_batched" THEN XyBatch(rows)
    ELSE DataBatch(rows, form)

Forms(op) ==
    IF op = "score_estimator_batched" THEN {"xy"} ELSE {"series", "predicted"}

Corruptions(op) ==
    IF op = "score_estimator_batched" THEN {"y_true_none", "y_true_list"}
    ELSE {"y_true_none", "y_pred_none", "y_true_list", "y_pred_list"}

\* a batch to_monoid rejects
Corrupt(batch, kind) ==
    CASE kind = "y_true_none" -> [batch EXCEPT !.y_true = NoneColumn]
      [] kind = "y_pred_none" -> [batch EXCEPT !.y_pred = NoneColumn]
      [] kind = "y_true_list" -> [batch EXCEPT !.y_true.type = "list"]
      [] OTHER -> [batch EXCEPT !.y_pred.type = "list"]

Operations == {"score_data", "score_data_batched", "score_estimator_batched"}

\* the batch sequences a caller holding dataset d may hand to op, each with
\* its relation to d: "whole" (d itself as one batch), "rebatched" (any
\* other split of d into non-empty disjoint batches), "empty", "malformed"
CallInputs(op, d) ==
    LET n == Len(d)
        whole == {[batches |-> <<MakeBatch(op, d, f)>>, shape |-> "whole"]
                    : f \in Forms(op)}
        splits(a) == {Split(a, c) : c \in SUBSET (1..(n - 1))}
        rebatched ==
            UNION {{[batches |-> [j \in 1..Len(sp) |-> MakeBatch(op, sp[j], f)],
                     shape |-> IF sp = <<d>> THEN "whole" ELSE "rebatched"]
                        : sp \in splits(a), f \in Forms(op)}
                   : a \in Arrangements(d)}
        malformed ==
            UNION {{[batches |->
                        [j \in 1..Len(sp) |->
                            IF j = k THEN Corrupt(MakeBatch(op, sp[j], f), kind)
                                     ELSE MakeBatch(op, sp[j], f)],
                     shape |-> "malformed"]
                        : k \in 1..Len(sp), f \in Forms(op),
                          kind \in Corruptions(op)}
                   : sp \in splits(d)}
    IN  IF op = "score_data"
          THEN whole \cup {i \in rebatched \cup malformed : Len(i.batches) = 1}
          ELSE rebatched \cup malformed
                 \cup {[batches |-> <<>>, shape |-> "empty"]}

NoBatch == [y_true |-> NoneColumn, y_pred |-> NoneColumn, X |-> NoneColumn]

CleanShapes == {"whole", "rebatched"}

NoReference == [op |-> "", shape |-> "", outcome |-> Pending]

\* one call on a collaborator: self is the object the method is called on
Event(ev, self, k) == [ev |-> ev, self |-> self, k |-> k]

\* ------------------------------------------------------ scoring calls
InitScore ==
    /\ metric \in {"accuracy", "r2"}
    /\ data \in Datasets
    /\ spc = "idle"
    /\ sop = ""
    /\ nb = 0
    /\ iter = <<>>
    /\ cur = NoBatch
    /\ lifted = NoMonoid
    /\ acc = NoMonoid
    /\ log = <<>>
    /\ outcome = Pending
    /\ shape = ""
    /\ reference = NoReference
    /\ scalls = 0
    \* the rest of the state is not exercised with the scoring calls
    /\ cache = <<>> /\ tpc = <<>> /\ tscoring = <<>> /\ tnew = <<>>
    /\ tresult = <<>> /\ returned = {} /\ nextId = 1 /\ ncalls = 0
    /\ mvals = <<>> /\ mab = <<>> /\ mbc = <<>> /\ mleft = <<>> /\ mright = <<>>

\* the call ends: its caller gets o (a float, or an exception)
Finish(o) ==
    /\ outcome' = o
    /\ spc' = "done"
    /\ reference' = IF reference = NoReference /\ shape \in CleanShapes
                      THEN [op |-> sop, shape |-> shape, outcome |-> o]
                      ELSE reference

\* a caller invokes score_data (78-81), score_data_batched (65-68) or
\* score_estimator_batched (70-74); the generators of lines 66 and 73 are
\* created and nothing is pulled yet
CallScore(op, input) ==
    /\ spc = "idle"
    /\ scalls < MaxScoreCalls
    /\ scalls' = scalls + 1
    /\ sop' = op
    /\ shape' = input.shape
    /\ nb' = Len(input.batches)
    /\ outcome' = Pending
    /\ lifted' = NoMonoid
    /\ acc' = NoMonoid
    /\ log' = <<>>
    /\ IF op = "score_data"
         THEN /\ cur' = input.batches[1]
              /\ iter' = <<>>
              /\ spc' = "to_monoid"
         ELSE /\ cur' = NoBatch
              /\ iter' = input.batches
              /\ spc' = "next"
    /\ UNCHANGED <<metric, data, reference>>
    /\ UNCHANGED <<regvars, monoidvars>>

\* functools.reduce asks the generator of line 66 for its next element,
\* which asks `batches` (through the generator of line 73, if any)
PullBatch ==
    /\ spc = "next"
    /\ IF iter = <<>>
         THEN IF acc = NoMonoid
                THEN \* reduce: empty iterable and no initial value
                     /\ Finish(EmptyBatchSequenceError)
                     /\ UNCHANGED <<iter, cur, log>>
                ELSE \* reduce returns `combined`
                     /\ spc' = "from_monoid"
                     /\ UNCHANGED <<iter, cur, log, outcome, reference>>
         ELSE /\ cur' = Head(iter)
              /\ iter' = Tail(iter)
              /\ log' = Append(log, Event("next", "batches", nb - Len(iter) + 1))
              /\ spc' = IF sop = "score_estimator_batched"
                          THEN "predict" ELSE "to_monoid"
              /\ UNCHANGED <<outcome, reference>>
    /\ UNCHANGED <<metric, data, sop, nb, lifted, acc, shape, scalls>>
    /\ UNCHANGED <<regvars, monoidvars>>

\* line 73: (y, estimator.predict(X), X)
PredictBatch ==
    /\ spc = "predict"
    /\ cur' = [cur EXCEPT !.y_pred = Column("ndarray", Predicted(cur.X.values))]
    /\ log' = Append(log, Event("predict", "estimator", nb - Len(iter)))
    /\ spc' = "to_monoid"
    /\ UNCHANGED <<metric, data, sop, nb, iter, lifted, acc, outcome, shape,
                   reference, scalls>>
    /\ UNCHANGED <<regvars, monoidvars>>

\* variant of line 66: a batch to_monoid rejects is skipped
LiftBatchSkipping ==
    /\ spc = "to_monoid"
    /\ log' = Append(log, Event("to_monoid", "factory", nb - Len(iter)))
    /\ LET v == ToMonoid(metric, cur)
       IN  IF v = NoMonoid
             THEN IF sop = "score_data"
                    THEN /\ Finish(InvalidBatchError)
                         /\ UNCHANGED <<lifted, acc>>
                    ELSE /\ spc' = "next"
                         /\ UNCHANGED <<lifted, acc, outcome, reference>>
           ELSE IF sop = "score_data" \/ acc = NoMonoid
             THEN /\ acc' = v
                  /\ spc' = IF sop = "score_data" THEN "from_monoid" ELSE "next"
                  /\ UNCHANGED <<lifted, outcome, reference>>
           ELSE /\ lifted' = v
                /\ spc' = "combine"
                /\ UNCHANGED <<acc, outcome, reference>>
    /\ UNCHANGED <<metric, data, sop, nb, iter, cur, shape, scalls>>
    /\ UNCHANGED <<regvars, monoidvars>>

\* variant of line 67: the first element is both the initial value and an
\* element of the fold
LiftBatchFoldsFirst ==
    /\ spc = "to_monoid"
    /\ log' = Append(log, Event("to_monoid", "factory", nb - Len(iter)))
    /\ LET v == ToMonoid(metric, cur)
       IN  IF v = NoMonoid
             THEN /\ Finish(InvalidBatchError)
                  /\ UNCHANGED <<lifted, acc>>
           ELSE IF sop = "score_data"
             THEN /\ acc' = v
                  /\ spc' = "from_monoid"
                  /\ UNCHANGED <<lifted, outcome, reference>>
           ELSE /\ lifted' = v
                /\ acc' = IF acc = NoMonoid THEN v ELSE acc
                /\ spc' = "combine"
                /\ UNCHANGED <<outcome, reference>>
    /\ UNCHANGED <<metric, data, sop, nb, iter, cur, shape, scalls>>
    /\ UNCHANGED <<regvars, monoidvars>>

\* self.to_monoid(b) at line 66, or self.to_monoid(...) at line 81
LiftBatch ==
    /\ spc = "to_monoid"
    /\ log' = Append(log, Event("to_monoid", "factory", nb - Len(iter)))
    /\ LET v == ToMonoid(metric, cur)
       IN  IF v = NoMonoid
             THEN \* the AssertionError leaves the generator, reduce and the call
                  /\ Finish(InvalidBatchError)
                  /\ UNCHANGED <<lifted, acc>>
           ELSE IF sop = "score_data" \/ acc = NoMonoid
             THEN \* line 81, or reduce's first element: value = next(it)
                  /\ acc' = v
                  /\ spc' = IF sop = "score_data" THEN "from_monoid" ELSE "next"
                  /\ UNCHANGED <<lifted, outcome, reference>>
           ELSE /\ lifted' = v
                /\ spc' = "combine"
                /\ UNCHANGED <<acc, outcome, reference>>
    /\ UNCHANGED <<metric, data, sop, nb, iter, cur, shape, scalls>>
    /\ UNCHANGED <<regvars, monoidvars>>

\* variant of line 67: lambda a, b: b.combine(a)
CombineBatchFlipped ==
    /\ spc = "combine"
    /\ acc' = Combine(lifted, acc)
    /\ log' = Append(log, Event("combine", "element", nb - Len(iter)))
    /\ spc' = "next"
    /\ UNCHANGED <<metric, data, sop, nb, iter, cur, lifted, outcome, shape,
                   reference, scalls>>
    /\ UNCHANGED <<regvars, monoidvars>>

\* line 67: lambda a, b: a.combine(b), a the running value
CombineBatch ==
    /\ spc = "combine"
    /\ acc' = Combine(acc, lifted)
    /\ log' = Append(log, Event("combine", "accumulator", nb - Len(iter)))
    /\ spc' = "next"
    /\ UNCHANGED <<metric, data, sop, nb, iter, cur, lifted, outcome, shape,
                   reference, scalls>>
    /\ UNCHANGED <<regvars, monoidvars>>

\* line 68 / line 81: return self.from_monoid(...)
ApplyFromMonoid ==
    /\ spc = "from_monoid"
    /\ log' = Append(log, Event("from_monoid", "factory", 0))
    /\ Finish(FromMonoid(metric, acc))
    /\ UNCHANGED <<metric, data, sop, nb, iter, cur, lifted, acc, shape, scalls>>
    /\ UNCHANGED <<regvars, monoidvars>>

\* the caller chooses the operation and the batches
StartCall ==
    /\ spc = "idle"
    /\ scalls < MaxScoreCalls
    /\ \E op \in Operations : \E input \in CallInputs(op, data) :
           CallScore(op, input)

\* the call's frame and generators are gone; the caller holds the outcome
ReturnToCaller ==
    /\ spc = "done"
    /\ spc' = "idle"
    /\ sop' = ""
    /\ shape' = ""
    /\ nb' = 0
    /\ iter' = <<>>
    /\ cur' = NoBatch
    /\ lifted' = NoMonoid
    /\ acc' = NoMonoid
    /\ log' = <<>>
    /\ outcome' = Pending
    /\ UNCHANGED <<metric, data, reference, scalls>>
    /\ UNCHANGED <<regvars, monoidvars>>

NextScore ==
    \/ StartCall
    \/ ReturnToCaller
    \/ PullBatch
    \/ PredictBatch
    \/ LiftBatch
    \/ CombineBatch
    \/ ApplyFromMonoid

SpecScore == InitScore /\ [][NextScore]_vars

\* ------------------------------------------------------- monoid laws
\* the values to_monoid gives on the datasets, and the value of no rows
MonoidValues(m) ==
    {ToMonoid(m, DataBatch(d, "series")) : d \in Datasets}
        \cup {IF m = "accuracy" THEN AccuracyData(0, 0) ELSE R2Data(0, 0, 0, 0)}

InitMonoid ==
    /\ metric \in {"accuracy", "r2"}
    /\ mvals \in MonoidValues(metric) \X MonoidValues(metric) \X MonoidValues(metric)
    /\ mab = NoMonoid /\ mbc = NoMonoid /\ mleft = NoMonoid /\ mright = NoMonoid
    /\ data = <<>> /\ spc = "idle" /\ sop = ""
    /\ nb = 0 /\ iter = <<>> /\ cur = <<>> /\ lifted = <<>> /\ acc = <<>>
    /\ log = <<>> /\ outcome = <<>> /\ shape = "" /\ reference = <<>>
    /\ scalls = 0
    /\ cache = <<>> /\ tpc = <<>> /\ tscoring = <<>> /\ tnew = <<>>
    /\ tresult = <<>> /\ returned = {} /\ nextId = 1 /\ ncalls = 0

\* a.combine(b)
CombineAB ==
    /\ mab = NoMonoid
    /\ mab' = Combine(mvals[1], mvals[2])
    /\ UNCHANGED <<mvals, mbc, mleft, mright>>
    /\ UNCHANGED <<regvars, scorevars>>

\* b.combine(c)
CombineBC ==
    /\ mbc = NoMonoid
    /\ mbc' = Combine(mvals[2], mvals[3])
    /\ UNCHANGED <<mvals, mab, mleft, mright>>
    /\ UNCHANGED <<regvars, scorevars>>

\* a.combine(b).combine(c)
CombineLeft ==
    /\ mab # NoMonoid /\ mleft = NoMonoid
    /\ mleft' = Combine(mab, mvals[3])
    /\ UNCHANGED <<mvals, mab, mbc, mright>>
    /\ UNCHANGED <<regvars, scorevars>>

\* a.combine(b.combine(c))
CombineRight ==
    /\ mbc # NoMonoid /\ mright = NoMonoid
    /\ mright' = Combine(mvals[1], mbc)
    /\ UNCHANGED <<mvals, mab, mbc, mleft>>
    /\ UNCHANGED <<regvars, scorevars>>

NextMonoid == CombineAB \/ CombineBC \/ CombineLeft \/ CombineRight

SpecMonoid == InitMonoid /\ [][NextMonoid]_vars

\* =====================================================================
\* Properties
\* =====================================================================
Returned(name) == {r \in returned : r.scoring = name /\ r.outcome = "returned"}

\* C1: for every registered name and every interleaving of concurrent
\* callers, all calls of get_scorer(name) ever made return the same factory
\* instance.
C1_SingletonObserved ==
    \A name \in RegisteredNames :
        \A r1, r2 \in Returned(name) : r1.value = r2.value

\* the running call has ended, it was op on batches of a clean shape, and
\* the first call was refOp on batches of a shape in refShapes
Comparable(op, shapes, refOp, refShapes) ==
    /\ spc = "done" /\ sop = op /\ shape \in shapes
    /\ reference.op = refOp /\ reference.shape \in refShapes

\* C2: batch-invariance.  Calls of score_data_batched over two splits of the
\* same dataset into non-empty disjoint batches return the same score, and
\* the value from_monoid receives is the aggregate of the whole dataset.
C2_BatchInvariance ==
    /\ Comparable("score_data_batched", CleanShapes,
                  "score_data_batched", CleanShapes)
           => outcome = reference.outcome
    /\ (spc = "from_monoid" /\ sop = "score_data_batched" /\ shape \in CleanShapes)
           => acc = ToMonoid(metric, DataBatch(data, "series"))

C2_Witness ==
    /\ Comparable("score_data_batched", {"rebatched"},
                  "score_data_batched", {"rebatched"})
    /\ scalls = 2 /\ nb = 3
    /\ outcome.k = "fin" /\ outcome.num # 0 /\ outcome.den # 1

\* C3: combine is associative: a.combine(b).combine(c) has the same fields
\* as a.combine(b.combine(c)).
C3_CombineAssociative ==
    (mleft # NoMonoid /\ mright # NoMonoid) => mleft = mright

C3_Witness ==
    /\ mleft # NoMonoid /\ mright # NoMonoid
    /\ metric = "r2"
    /\ mvals[1] # mvals[2] /\ mvals[2] # mvals[3] /\ mvals[1] # mvals[3]
    /\ mvals[3].res_sum_sq > 0 /\ mvals[2].sum > 0 /\ mvals[1].n > 0

BatchedOperations == {"score_data_batched", "score_estimator_batched"}

\* C4: score_data_batched and score_estimator_batched on an empty sequence
\* fail: no score is returned, and predict, to_monoid, combine and
\* from_monoid are never invoked.
C4_EmptySequenceFails ==
    (sop \in BatchedOperations /\ nb = 0) =>
        /\ log = <<>>
        /\ spc \in {"next", "done"}
        /\ spc = "done" =>
               /\ ~IsFloat(outcome)
               /\ outcome.k = "TypeError:reduce() of empty iterable"
               /\ reference.shape # "empty"

C4_Witness ==
    /\ spc = "done" /\ sop = "score_estimator_batched" /\ nb = 0
    /\ shape = "empty" /\ scalls = 2 /\ reference = NoReference

\* the statistics from which no score is defined
Degenerate(m, v) ==
    IF m = "accuracy" THEN v.total = 0
    ELSE v.n = 0 \/ v.n * v.sum_sq = v.sum * v.sum

\* C5: from_monoid fails, and never returns a value, whenever the accumulated
\* statistics cannot yield a defined score (accuracy: total = 0; R2: n = 0 or
\* ss_tot = 0), for the value of one to_monoid or of any sequence of combines.
C5_DegenerateFails ==
    (spc = "done" /\ acc # NoMonoid /\ log # <<>>
        /\ log[Len(log)].ev = "from_monoid" /\ Degenerate(metric, acc))
      => ~IsFloat(outcome)

\* C6: get_scorer with a name that is not registered fails, returns no
\* factory and leaves the registry unchanged: no entry is added and the
\* entries of the registered names keep their state.
C6_UnknownNameRejected ==
    [][/\ DOMAIN cache' = RegisteredNames
       /\ \A r \in returned' :
              r.scoring \notin RegisteredNames =>
                  r.outcome = "raised" /\ r.value.cls = "AssertionError:scoring"
       /\ \A t \in Callers :
              (tscoring[t] \notin RegisteredNames /\ tpc[t] # tpc'[t]
                    /\ tpc[t] # "idle") =>
                  /\ cache' = cache
                  /\ tpc'[t] = "idle"
                  /\ tresult'[t] = None
                  /\ \E r \in returned' :
                         r.caller = t /\ r.scoring = tscoring[t]
                             /\ r.outcome = "raised"]_vars

C6_Witness ==
    /\ \E r \in returned : r.scoring = "f1" /\ r.outcome = "raised"
    /\ cache["accuracy"] # None
    /\ cache["r2"] = None

\* the last batch pulled was handed to to_monoid, which rejected it
RejectedLast ==
    /\ spc \notin {"idle", "predict", "to_monoid"}
    /\ log # <<>>
    /\ sop \in BatchedOperations
    /\ ToMonoid(metric, cur) = NoMonoid

\* C7: if to_monoid fails on the k-th batch, the call aborts with that error
\* at the k-th batch: the batch is not skipped, no later batch is pulled or
\* lifted, from_monoid is never applied and no score is returned.
C7_MalformedBatchAborts ==
    RejectedLast =>
        LET k == nb - Len(iter)
        IN  /\ spc = "done"
            /\ ~IsFloat(outcome) /\ outcome.k = "AssertionError:to_monoid"
            /\ log[Len(log)] = Event("to_monoid", "factory", k)
            /\ Cardinality({i \in DOMAIN log : log[i].ev = "next"}) = k
            /\ Cardinality({i \in DOMAIN log : log[i].ev = "to_monoid"}) = k
            /\ \A i \in DOMAIN log : log[i].ev # "from_monoid" /\ log[i].k <= k

C7_Witness ==
    /\ RejectedLast /\ spc = "done"
    /\ sop = "score_data_batched"
    /\ nb = 3 /\ Len(iter) = 1 /\ acc # NoMonoid

\* C8: score_data(y_true, y_pred) returns the same result as
\* score_data_batched over the one-element sequence of that pair; with one
\* batch the fold never invokes combine and from_monoid is applied to the
\* to_monoid value of that batch.
C8_SingleEqualsBatched ==
    /\ Comparable("score_data_batched", {"whole"}, "score_data", {"whole"})
           => outcome = reference.outcome
    /\ Comparable("score_data", {"whole"}, "score_data_batched", {"whole"})
           => outcome = reference.outcome
    /\ (sop = "score_data_batched" /\ nb = 1 /\ shape \in CleanShapes
           /\ spc = "done") =>
           /\ log = <<Event("next", "batches", 1),
                      Event("to_monoid", "factory", 1),
                      Event("from_monoid", "factory", 0)>>
           /\ acc = ToMonoid(metric, cur)
           /\ outcome = FromMonoid(metric, acc)

C8_Witness ==
    /\ spc = "done" /\ sop = "score_data_batched" /\ nb = 1
    /\ shape = "whole" /\ Len(data) = 3
    /\ outcome.k = "fin" /\ outcome.den # 1
    /\ reference.op = "score_data" /\ reference.shape = "whole"

\* C9: the registry entry of each registered name moves only forward: it
\* starts uninitialized, a successful get_scorer(name) leaves it initialized,
\* an initialized entry is never reset or removed, and a call for one name
\* never changes the entry of the other name.
C9_RegistryMovesForward ==
    /\ \A n \in RegisteredNames : cache[n] = None
    /\ [][/\ \A n \in RegisteredNames :
                /\ cache[n] # None => (n \in DOMAIN cache' /\ cache'[n] # None)
                /\ (n \in DOMAIN cache' /\ cache'[n] # cache[n]) =>
                       \E t \in Callers : tscoring[t] = n /\ tpc[t] # tpc'[t]
          /\ \A r \in returned' \ returned :
                r.outcome = "returned" => cache'[r.scoring] # None]_vars

C9_Witness ==
    /\ cache["accuracy"] # None /\ cache["r2"] # None
    /\ Returned("accuracy") # {} /\ Returned("r2") # {}
    /\ \E r \in returned : r.scoring = "f1"

RECURSIVE ExpectedLog(_)
\* the collaborator calls of a fold over n batches of (X, y)
ExpectedLog(n) ==
    IF n = 0 THEN <<>>
    ELSE ExpectedLog(n - 1)
           \o <<Event("next", "batches", n), Event("predict", "estimator", n),
                Event("to_monoid", "factory", n)>>
           \o (IF n >= 2 THEN <<Event("combine", "accumulator", n)>> ELSE <<>>)

IsPrefix(s, t) == Len(s) <= Len(t) /\ s = SubSeq(t, 1, Len(s))

\* C10: score_estimator_batched consumes its sequence lazily and in order:
\* per batch one pull, one predict, one to_monoid and (from the second batch
\* on) one accumulator.combine(lifted), each batch finished before the next
\* is pulled; from_monoid is applied once, after the last batch; the result
\* equals score_data_batched over the triples (y, predict(X), X).
C10_EstimatorFoldOrder ==
    sop = "score_estimator_batched" =>
        /\ IsPrefix(log, ExpectedLog(nb) \o <<Event("from_monoid", "factory", 0)>>)
        /\ Len(iter) = nb - Cardinality({i \in DOMAIN log : log[i].ev = "next"})
        /\ (spc = "done" /\ shape \in CleanShapes) =>
               /\ log = ExpectedLog(nb) \o <<Event("from_monoid", "factory", 0)>>
               /\ reference.op = "score_data_batched" =>
                      outcome = reference.outcome

C10_Witness ==
    /\ spc = "done" /\ sop = "score_estimator_batched" /\ nb = 3
    /\ shape = "rebatched" /\ outcome.k = "fin" /\ outcome.den # 1
    /\ reference.op = "score_data_batched"

====
